---------------------------- MODULE Spec2Model ----------------------------
(***************************************************************************)
(* A model of the weather-app forecast aggregator                          *)
(* (src/src/components/TheWeather.vue): the reactive state of the          *)
(* component, fetchWeatherForecast with its duplicate guard and cache,     *)
(* processWeatherData (the regrouping of the forecast list), the sweep     *)
(* cleanupCache, and the environment that drives them (the cityName prop,  *)
(* the network, the clock).                                                *)
(***************************************************************************)
EXTENDS Integers, Sequences, FiniteSets, TLC

VARIABLES
    cityName,             \* props.cityName (string | null)
    locationInfoData,     \* ref<LocationInfo | null>
    completeWeatherData,  \* ref<WeatherEntry[]>
    dailyWeatherData,     \* ref<DailyWeather[]>
    isLoading,            \* ref(false)
    error,                \* ref<string | null>
    lastFetchedCity,      \* ref<string | null>
    weatherCache,         \* ref<Map<string, {timestamp, data}>>, in insertion order
    now,                  \* Date.now(), in ms
    tz,                   \* the machine's time zone, minutes east of UTC
    inflight,             \* the forecast requests awaiting their response
    nFetch,               \* how many network requests were issued so far
    event,                \* history: the operation that ran last and what it saw
    runCity,              \* history: the city of the last fetchWeatherForecast call
    runNet,               \* history: network requests issued by the calls for
                          \*   runCity since the last call for another city
    lastOkCity,           \* history: city of the last fetch that succeeded
    fetchedAt,            \* history: per city, when its last response was stored
    locationLatitude,     \* ref<string | null> of the map view
    locationLongitude,    \* ref<string | null> of the map view
    geoInflight,          \* the reverse-geocode requests awaiting their response
    nGeo,                 \* how many reverse-geocode requests were issued so far
    lastGeo,              \* history: the last step of the map view and what it saw
    phase,                \* the weather component's life: "setup", "mounted", "unmounted"
    timerActive           \* the interval set in onMounted is still scheduled

vars == <<cityName, locationInfoData, completeWeatherData, dailyWeatherData,
          isLoading, error, lastFetchedCity, weatherCache, now, tz, inflight,
          nFetch, event, runCity, runNet, lastOkCity, fetchedAt,
          locationLatitude, locationLongitude, geoInflight, nGeo, lastGeo,
          phase, timerActive>>

(* the life cycle of the weather component *)
lifecycle == <<phase, timerActive>>

(* the state of the map view (the parent of the weather component) *)
resolver == <<locationLatitude, locationLongitude, geoInflight, nGeo, lastGeo>>

(* the state of the weather component, but for its prop *)
aggregator ==
    <<locationInfoData, completeWeatherData, dailyWeatherData, isLoading, error,
      lastFetchedCity, weatherCache, now, tz, inflight, nFetch, event, runCity,
      runNet, lastOkCity, fetchedAt, phase, timerActive>>

display == <<locationInfoData, completeWeatherData, dailyWeatherData>>

-----------------------------------------------------------------------------
(* Bounds of the model *)

MaxFetch == 2
MaxTick == 2
MaxLen == 3
MaxSlot == 12
MaxGeo == 2

(* null of a string-valued ref, and null of an object-valued ref *)
NullStr == "<null>"
NullObj == [isNull |-> TRUE]

Cities == {"Berlin", "Paris"}

(* the time zones a machine running the app may be in (minutes east of    *)
(* UTC), and the one of the app's audience (Europe/Berlin, summer)        *)
TimeZones == {-300, 0, 120, 540}
HomeZone == 2 * 60

-----------------------------------------------------------------------------
(* Program constants *)

CACHE_DURATION == 10 * 60 * 1000

targetHours == {6, 12, 18, 21}

MaxCacheSize == 10
KeepRecent == 5

MsgFetchFailed == "Fehler beim Abrufen der Wetterdaten"
MsgUnknown == "Unbekannter Fehler beim Laden der Daten"
MsgInvalid == "Ungueltige Wetterdaten erhalten"

GenericMessages == {MsgFetchFailed, MsgUnknown, MsgInvalid}

-----------------------------------------------------------------------------
(* Dates: new Date(entry.dt * 1000), getUTCHours(), toDateString() *)

MsPerHour == 60 * 60 * 1000
MsPerDay == 24 * MsPerHour

(* new Date(entry.dt * 1000): the instant in ms since the epoch *)
DateOf(entry) == entry.dt * 1000

(* date.getUTCHours() *)
GetUTCHours(date) == (date \div MsPerHour) % 24

(* date.getHours(): the hour of day in the machine's time zone *)
GetHours(date, zone) == ((date + zone * 60 * 1000) \div MsPerHour) % 24

(* date.toDateString(): "Www Mmm dd yyyy" of the LOCAL calendar day; the  *)
(* string is represented by the number of that local day since the epoch  *)
(* (the two determine each other).                                        *)
ToDateString(date, zone) == (date + zone * 60 * 1000) \div MsPerDay

(* the calendar day of the instant in UTC *)
UTCDay(date) == date \div MsPerDay

-----------------------------------------------------------------------------
(* processWeatherData: the regrouping of the forecast list *)

(* targetHours.includes(date.getUTCHours()) *)
IsLocalTargetHour(entry, zone) == GetHours(DateOf(entry), zone) \in targetHours
IsTargetHour(entry, zone) == GetUTCHours(DateOf(entry)) \in targetHours

HasGroup(groups, dateString) ==
    \E i \in 1..Len(groups) : groups[i].date = dateString

(* groups[dateString].push(entry) *)
PushTo(groups, dateString, entry) ==
    [i \in 1..Len(groups) |->
        IF groups[i].date = dateString
        THEN [groups[i] EXCEPT !.weatherEntries = Append(@, entry)]
        ELSE groups[i]]

(* one step of the reducer; a plain object keeps its string keys in the   *)
(* order of their insertion, so the groups are a sequence.                *)
GroupStepNoEmpty(groups, entry, zone) ==
    LET dateString == ToDateString(DateOf(entry), zone)
    IN  IF ~IsTargetHour(entry, zone) THEN groups
        ELSE PushTo(IF HasGroup(groups, dateString) THEN groups
                    ELSE Append(groups, [date |-> dateString, weatherEntries |-> <<>>]),
                    dateString, entry)
GroupStep(groups, entry, zone) ==
    LET dateString == ToDateString(DateOf(entry), zone)
        g1 == IF HasGroup(groups, dateString) THEN groups
              ELSE Append(groups, [date |-> dateString, weatherEntries |-> <<>>])
    IN  IF IsTargetHour(entry, zone) THEN PushTo(g1, dateString, entry) ELSE g1

(* data.list.reduce(..., {}) followed by Object.entries(...).map(...) *)
RECURSIVE Reduce(_, _, _)
Reduce(list, groups, zone) ==
    IF list = <<>> THEN groups
    ELSE Reduce(Tail(list), GroupStep(groups, Head(list), zone), zone)

Regroup(list, zone) == Reduce(list, <<>>, zone)

(* new Intl.DisplayNames(['de'], {type: 'region'}).of(code) || code *)
RegionName(code) ==
    CASE code = "DE" -> "Deutschland"
      [] code = "FR" -> "Frankreich"
      [] OTHER -> code

(* !data || !data.list || !data.city *)
IsInvalid(data) == ~data.hasList \/ ~data.hasCity

LocationInfoOf(data) ==
    [name |-> data.city.name, country |-> RegionName(data.city.country)]

(* the computed properties *)
currentWeather ==
    IF Len(completeWeatherData) > 0 /\ completeWeatherData # <<[notArray |-> TRUE]>>
    THEN completeWeatherData[1] ELSE NullObj
todayBlocks ==
    IF Len(dailyWeatherData) > 0 THEN dailyWeatherData[1].weatherEntries ELSE <<>>
nextDays == SubSeq(dailyWeatherData, 2, Len(dailyWeatherData))

-----------------------------------------------------------------------------
(* The environment: forecast payloads and network responses *)

Entry(hour, temp) == [dt |-> hour * 3600, temp |-> temp]

CountryOf(c) == IF c = "Berlin" THEN "DE" ELSE IF c = "Paris" THEN "FR" ELSE "XX"

(* the 3-hourly forecast list the service returns for a city *)
ForecastOf(c) ==
    IF c = "Berlin"
    THEN <<Entry(27, 11), Entry(30, 12), Entry(45, 13), Entry(48, 14)>>
    ELSE <<Entry(33, 21), Entry(36, 22), Entry(54, 23)>>

NoCity == [name |-> "", country |-> ""]

ValidPayload(c) ==
    [hasList |-> TRUE, list |-> ForecastOf(c),
     hasCity |-> TRUE, city |-> [name |-> c, country |-> CountryOf(c)]]
NoListPayload(c) ==
    [hasList |-> FALSE, list |-> <<>>,
     hasCity |-> TRUE, city |-> [name |-> c, country |-> CountryOf(c)]]
NoCityPayload(c) ==
    [hasList |-> TRUE, list |-> ForecastOf(c), hasCity |-> FALSE, city |-> NoCity]

(* a body whose list is truthy but no array (an object): it passes the    *)
(* shape validation, and data.list.reduce is not a function               *)
MalformedList == <<[notArray |-> TRUE]>>

MalformedPayload(c) ==
    [hasList |-> TRUE, list |-> MalformedList,
     hasCity |-> TRUE, city |-> [name |-> c, country |-> CountryOf(c)]]

NoPayload == [hasList |-> FALSE, list |-> <<>>, hasCity |-> FALSE, city |-> NoCity]

(* what `await fetch(url)` and `await res.json()` can produce:              *)
(*   reject  - fetch rejects (a TypeError carrying the runtime's message)   *)
(*   badjson - res.json() rejects (a SyntaxError carrying the runtime's)    *)
(*   http    - a response came; ok is res.ok, message is data.message ("" = *)
(*             none), data is the parsed body                               *)
MsgRuntimeFetch == "Failed to fetch"
MsgRuntimeJson == "Unexpected token < in JSON at position 0"
MsgServer == "city not found"
MsgRuntimeReduce == "data.list.reduce is not a function"

Responses(c) ==
    { [kind |-> "reject", ok |-> FALSE, message |-> MsgRuntimeFetch, data |-> NoPayload],
      [kind |-> "badjson", ok |-> FALSE, message |-> MsgRuntimeJson, data |-> NoPayload],
      [kind |-> "http", ok |-> FALSE, message |-> MsgServer, data |-> NoPayload],
      [kind |-> "http", ok |-> FALSE, message |-> "", data |-> NoPayload],
      [kind |-> "http", ok |-> TRUE, message |-> "", data |-> ValidPayload(c)],
      [kind |-> "http", ok |-> TRUE, message |-> "", data |-> NoListPayload(c)],
      [kind |-> "http", ok |-> TRUE, message |-> "", data |-> NoCityPayload(c)],
      [kind |-> "http", ok |-> TRUE, message |-> "", data |-> MalformedPayload(c)] }

(* the response carries a server-provided message *)
HasServerMessage(resp) == resp.kind = "http" /\ resp.message # ""

(* the fetch fails: the try block throws before processWeatherData *)
Throws(resp) == resp.kind # "http" \/ ~resp.ok

(* processWeatherData(data) throws (a TypeError) after line 131 *)
ProcessThrows(data) == ~IsInvalid(data) /\ data.list = MalformedList

(* the fetch ends in the Error state *)
Fails(resp) == Throws(resp) \/ IsInvalid(resp.data) \/ ProcessThrows(resp.data)

-----------------------------------------------------------------------------
(* weatherCache: a Map, kept as the sequence of its entries in insertion order *)

HasKey(cache, c) == \E i \in 1..Len(cache) : cache[i].key = c

(* weatherCache.value.get(cityName) *)
CacheGet(cache, c) ==
    IF HasKey(cache, c)
    THEN cache[CHOOSE i \in 1..Len(cache) : cache[i].key = c]
    ELSE NullObj

(* weatherCache.value.set(cityName, {timestamp, data}): an existing key   *)
(* keeps its place, a new key is appended                                 *)
CacheSetAppend(cache, c, timestamp, data) ==
    Append(cache, [key |-> c, timestamp |-> timestamp, data |-> data])
CacheSet(cache, c, timestamp, data) ==
    IF HasKey(cache, c)
    THEN [i \in 1..Len(cache) |->
            IF cache[i].key = c
            THEN [key |-> c, timestamp |-> timestamp, data |-> data]
            ELSE cache[i]]
    ELSE Append(cache, [key |-> c, timestamp |-> timestamp, data |-> data])

(* cachedData && Date.now() - cachedData.timestamp < CACHE_DURATION *)
IsFreshInclusive(cached, time) ==
    cached # NullObj /\ time - cached.timestamp <= CACHE_DURATION
IsFreshAlways(cached, time) == cached # NullObj
IsFresh(cached, time) ==
    cached # NullObj /\ time - cached.timestamp < CACHE_DURATION

(* Array.prototype.sort with (a, b) => b.timestamp - a.timestamp: a stable *)
(* sort, greatest timestamp first                                          *)
RECURSIVE InsertDesc(_, _)
InsertDesc(sorted, e) ==
    IF sorted = <<>> THEN <<e>>
    ELSE IF Head(sorted).timestamp >= e.timestamp
         THEN <<Head(sorted)>> \o InsertDesc(Tail(sorted), e)
         ELSE <<e>> \o sorted

RECURSIVE SortDesc(_)
SortDesc(entries) ==
    IF entries = <<>> THEN <<>>
    ELSE InsertDesc(SortDesc(SubSeq(entries, 1, Len(entries) - 1)),
                    entries[Len(entries)])

(* cleanupCache's new Map(entries.sort(...).slice(0, 5)) *)
PrunedFirstInserted(cache) ==
    IF Len(cache) > MaxCacheSize
    THEN SubSeq(cache, 1, KeepRecent)
    ELSE cache
Pruned(cache) ==
    IF Len(cache) > MaxCacheSize
    THEN SubSeq(SortDesc(cache), 1, KeepRecent)
    ELSE cache

-----------------------------------------------------------------------------
(* The map view: clicked points and the reverse-geocoding service *)

(* a number-valued property that may be missing; coordinates are in units *)
(* of 1/10000 degree                                                      *)
NoValue == [defined |-> FALSE, value |-> 0]
Num(x) == [defined |-> TRUE, value |-> x]

(* !x of a number or undefined: undefined, null and 0 are falsy *)
Falsy(x) == ~x.defined \/ x.value = 0

(* a property of a parsed JSON object that is not there *)
Undefined == "<undefined>"

(* the truthiness of a string or null or undefined *)
Truthy(str) == str # NullStr /\ str # Undefined /\ str # ""

(* Number.prototype.toFixed(3) *)
ToFixed3(x) ==
    LET a == IF x.value < 0 THEN -x.value ELSE x.value
        t == (a + 5) \div 10
        frac == t % 1000
        pad == IF frac < 10 THEN "00" ELSE IF frac < 100 THEN "0" ELSE ""
    IN  (IF x.value < 0 THEN "-" ELSE "")
            \o ToString(t \div 1000) \o "." \o pad \o ToString(frac)

NotAvailable == "n.V."

(* event.detail.mapPoint of a click *)
Point(lat, lon, webMercator) ==
    [latitude |-> lat, longitude |-> lon, isWebMercator |-> webMercator]

NoPoint == Point(NoValue, NoValue, FALSE)

(* Berlin, Paris, a point on the equator, and a point off the globe *)
Places ==
    { <<Num(525200), Num(134050)>>, <<Num(488566), Num(23522)>>,
      <<Num(0), Num(134050)>>, <<NoValue, NoValue>> }

Points == {Point(pl[1], pl[2], wm) : pl \in Places, wm \in BOOLEAN}

(* the settlement the geocoding service knows at the coordinates of a     *)
(* request, if any                                                        *)
PlaceOf(lat, lon) ==
    IF lat = "52.520" /\ lon = "13.405" THEN "Berlin"
    ELSE IF lat = "48.857" /\ lon = "2.352" THEN "Paris"
    ELSE Undefined

DistrictOf(place) == IF place = "Berlin" THEN "Paris" ELSE "Berlin"

(* what `await fetch(url)` and `await response.json()` can produce:        *)
(*   reject  - fetch rejects;  badjson - response.json() rejects;          *)
(*   json    - a body was parsed: hasResult tells whether results[0] is    *)
(*             there, hasComponents whether it has components, normalized  *)
(*             and city are components._normalized_city and .city          *)
GeoBody(hasResult, hasComponents, normalized, city) ==
    [kind |-> "json", hasResult |-> hasResult, hasComponents |-> hasComponents,
     normalized |-> normalized, city |-> city]

GeoFailure(kind) ==
    [kind |-> kind, hasResult |-> FALSE, hasComponents |-> FALSE,
     normalized |-> Undefined, city |-> Undefined]

NoGeoResp == GeoFailure("none")

GeoResponses(g) ==
    LET place == PlaceOf(g.lat, g.lon)
    IN  { GeoFailure("reject"), GeoFailure("badjson"),
          GeoBody(FALSE, FALSE, Undefined, Undefined),
          GeoBody(TRUE, FALSE, Undefined, Undefined),
          GeoBody(TRUE, TRUE, Undefined, Undefined) }
        \cup (IF place = Undefined THEN {}
              ELSE { GeoBody(TRUE, TRUE, place, DistrictOf(place)),
                     GeoBody(TRUE, TRUE, place, Undefined),
                     GeoBody(TRUE, TRUE, Undefined, place) })

MsgGeoErrorAsNoResult == "n.V."
MsgGeoError == "error fetching city name"

(* getCityName(lat, lon), given what the service answered *)
GetCityNameCityFirst(resp) ==
    IF resp.kind # "json" THEN MsgGeoError
    ELSE IF ~(resp.hasResult /\ resp.hasComponents) THEN NotAvailable
    ELSE IF Truthy(resp.city) THEN resp.city
    ELSE IF resp.normalized # Undefined THEN resp.normalized
    ELSE NotAvailable
GetCityName(resp) ==
    IF resp.kind # "json" THEN MsgGeoError
    ELSE LET normalized == IF resp.hasResult /\ resp.hasComponents
                           THEN resp.normalized ELSE Undefined
             city == IF resp.hasResult /\ resp.hasComponents
                     THEN resp.city ELSE Undefined
             first == IF Truthy(normalized) THEN normalized ELSE city
         IN  IF first = Undefined THEN NotAvailable ELSE first

(* the values cityName can take *)
PlaceNames == Cities \cup {NotAvailable, MsgGeoError}

(* the history record of a step of the map view: its type ("none",        *)
(* "click", "geocomplete"), the clicked point and whether the click was   *)
(* only warned about, the coordinates of the request that completed, the  *)
(* response of the service and the name resolved                          *)
NoGeoEvent ==
    [type |-> "none", point |-> NoPoint, warned |-> FALSE,
     lat |-> NullStr, lon |-> NullStr,
     resp |-> NoGeoResp, result |-> NullStr]

-----------------------------------------------------------------------------
(* The state after construction (script setup has run, the view is mounted) *)

NoResp == [kind |-> "none", ok |-> FALSE, message |-> "", data |-> NoPayload]

(* the history record of one step: its type ("init", "call", "nocall",     *)
(* "complete", "sweep", "tick", "process"), and for a call of              *)
(* fetchWeatherForecast what it did (outcome: "suppressed", "cachehit",    *)
(* "network") and the state it found; for a completion the response;       *)
(* processed tells that processWeatherData ran, on data; escaped that an   *)
(* exception left fetchWeatherForecast (its promise rejected); for a sweep *)
(* sizeBefore is the size of the cache it found.                           *)
NoEvent ==
    [type |-> "init", city |-> NullStr, outcome |-> "none",
     loadedBefore |-> NullStr, pendingBefore |-> FALSE, loadingBefore |-> FALSE,
     hadFetch |-> FALSE, stale |-> FALSE, escaped |-> FALSE, sizeBefore |-> 0,
     resp |-> NoResp, processed |-> FALSE, data |-> NoPayload]

(* the view is mounted: onMounted has run and set the interval *)
MountedInit ==
    /\ phase = "mounted"
    /\ timerActive = TRUE

(* the refs of the map view after setup *)
ResolverInit ==
    /\ locationLatitude = NullStr
    /\ locationLongitude = NullStr
    /\ geoInflight = {}
    /\ nGeo = 0
    /\ lastGeo = NoGeoEvent

Init ==
    /\ cityName = NullStr
    /\ locationInfoData = NullObj
    /\ completeWeatherData = <<>>
    /\ dailyWeatherData = <<>>
    /\ isLoading = FALSE
    /\ error = NullStr
    /\ lastFetchedCity = NullStr
    /\ weatherCache = <<>>
    /\ now = 0
    /\ tz = HomeZone
    /\ inflight = {}
    /\ nFetch = 0
    /\ event = NoEvent
    /\ runCity = NullStr
    /\ runNet = 0
    /\ lastOkCity = NullStr
    /\ fetchedAt = [c \in Cities |-> -1]
    /\ ResolverInit
    /\ MountedInit

(* the city whose data is loaded (shown), if any *)
LoadedCity == IF locationInfoData = NullObj THEN NullStr ELSE locationInfoData.name

-----------------------------------------------------------------------------
(* resetData *)

ResetDataKeepList ==
    /\ locationInfoData' = NullObj
    /\ dailyWeatherData' = <<>>
    /\ completeWeatherData' = completeWeatherData
ResetData ==
    /\ locationInfoData' = NullObj
    /\ dailyWeatherData' = <<>>
    /\ completeWeatherData' = <<>>

(* completeWeatherData.value = data.list *)
RawListFiltered(data, zone) == SelectSeq(data.list, LAMBDA e : IsTargetHour(e, zone))
RawList(data, zone) == data.list

(* error.value after processWeatherData(data) *)
ErrorAfterProcessCleared(data, err) == IF IsInvalid(data) THEN MsgInvalid ELSE NullStr
ErrorAfterProcess(data, err) == IF IsInvalid(data) THEN MsgInvalid ELSE err

(* processWeatherData(data) *)
ProcessWeatherData(data) ==
    /\ error' = ErrorAfterProcess(data, error)
    /\ IF IsInvalid(data)
       THEN ResetData
       ELSE IF ProcessThrows(data)
       THEN /\ completeWeatherData' = RawList(data, tz)
            /\ UNCHANGED <<dailyWeatherData, locationInfoData>>
       ELSE /\ completeWeatherData' = RawList(data, tz)
            /\ dailyWeatherData' = Regroup(data.list, tz)
            /\ locationInfoData' = LocationInfoOf(data)

-----------------------------------------------------------------------------
(* fetchWeatherForecast(cityName), up to its first await *)

(* if (cityName === lastFetchedCity.value) return *)
IsDuplicateNever(c) == FALSE
IsDuplicate(c) == c = lastFetchedCity

(* the history of the call: what it found and what it did *)
CallEvent(c, outcome) ==
    [NoEvent EXCEPT
        !.type = "call", !.city = c, !.outcome = outcome,
        !.loadedBefore = LoadedCity,
        !.pendingBefore = \E r \in inflight : r.city = c,
        !.loadingBefore = isLoading,
        !.hadFetch = fetchedAt[c] >= 0,
        !.stale = fetchedAt[c] >= 0 /\ now - fetchedAt[c] >= CACHE_DURATION]

(* limit bounds the number of network requests of a run of the model *)
FetchWeatherForecastUpTo(c, limit) ==
    LET cachedData == CacheGet(weatherCache, c)
    IN  IF IsDuplicate(c)
        THEN /\ event' = CallEvent(c, "suppressed")
             /\ runNet' = IF runCity = c THEN runNet ELSE 0
             /\ UNCHANGED <<display, isLoading, error, lastFetchedCity, inflight,
                            nFetch>>
        ELSE IF IsFresh(cachedData, now)
        THEN /\ event' = [CallEvent(c, "cachehit") EXCEPT
                            !.processed = TRUE, !.data = cachedData.data,
                            !.escaped = ProcessThrows(cachedData.data)]
             /\ runNet' = IF runCity = c THEN runNet ELSE 0
             /\ ProcessWeatherData(cachedData.data)
             /\ UNCHANGED <<isLoading, lastFetchedCity, inflight, nFetch>>
        ELSE /\ nFetch < limit
             /\ event' = CallEvent(c, "network")
             /\ runNet' = IF runCity = c THEN runNet + 1 ELSE 1
             /\ error' = NullStr
             /\ isLoading' = TRUE
             /\ lastFetchedCity' = c
             /\ inflight' = inflight \cup {[id |-> nFetch + 1, city |-> c]}
             /\ nFetch' = nFetch + 1
             /\ UNCHANGED display

(* props.cityName becomes c; the watchEffect runs fetchWeatherForecast     *)
(* when the new value is not null                                         *)
WatchCityName(c, limit) ==
    /\ cityName' = c
    /\ IF c # NullStr
       THEN /\ FetchWeatherForecastUpTo(c, limit)
            /\ runCity' = c
       ELSE /\ event' = [NoEvent EXCEPT !.type = "nocall"]
            /\ UNCHANGED <<display, isLoading, error, lastFetchedCity, inflight,
                           nFetch, runCity, runNet>>
    /\ UNCHANGED <<weatherCache, now, tz, lastOkCity, fetchedAt>>

(* the parent changes props.cityName *)
SetCityName(c) ==
    /\ c # cityName
    /\ WatchCityName(c, MaxFetch)
    /\ UNCHANGED resolver
    /\ UNCHANGED lifecycle

-----------------------------------------------------------------------------
(* fetchWeatherForecast after its awaits: the response of request r arrives. *)
(* When the response is stored under the key the watchEffect read on its     *)
(* last run, the effect runs again for the unchanged cityName; that run      *)
(* either returns at the duplicate guard or hits the entry just stored and   *)
(* processes the same payload again, so it changes no state.                 *)

(* err instanceof Error ? err.message : 'Unbekannter Fehler ...', where    *)
(* err is what the try block threw                                         *)
ThrownMessageGeneric(resp) ==
    IF HasServerMessage(resp) THEN resp.message ELSE MsgFetchFailed
ThrownMessage(resp) ==
    IF resp.kind = "http"
    THEN (IF resp.message # "" THEN resp.message ELSE MsgFetchFailed)
    ELSE resp.message

(* finally { isLoading.value = false } *)
FinallyKeepsLoading == UNCHANGED isLoading
Finally == isLoading' = FALSE

(* a variant that drops the response of a superseded request *)
CompleteFenced(r, resp) ==
    /\ inflight' = inflight \ {r}
    /\ IF r.city # lastFetchedCity
       THEN UNCHANGED <<display, error, weatherCache, fetchedAt, isLoading,
                        lastOkCity>>
       ELSE /\ IF Throws(resp)
               THEN /\ error' = ThrownMessage(resp)
                    /\ ResetData
                    /\ UNCHANGED <<weatherCache, fetchedAt>>
               ELSE /\ weatherCache' = CacheSet(weatherCache, r.city, now, resp.data)
                    /\ fetchedAt' = [fetchedAt EXCEPT ![r.city] = now]
                    /\ IF ProcessThrows(resp.data)
                       THEN /\ error' = MsgRuntimeReduce
                            /\ ResetData
                       ELSE ProcessWeatherData(resp.data)
            /\ Finally
            /\ lastOkCity' = IF Fails(resp) THEN lastOkCity ELSE r.city
    /\ event' = [NoEvent EXCEPT
                    !.type = "complete", !.city = r.city, !.resp = resp,
                    !.loadedBefore = LoadedCity,
                    !.processed = ~Throws(resp), !.data = resp.data]
    /\ UNCHANGED <<cityName, lastFetchedCity, now, tz, nFetch, runCity, runNet>>
    /\ UNCHANGED resolver
    /\ UNCHANGED lifecycle

Complete(r, resp) ==
    /\ inflight' = inflight \ {r}
    /\ IF Throws(resp)
       THEN /\ error' = ThrownMessage(resp)
            /\ ResetData
            /\ UNCHANGED <<weatherCache, fetchedAt>>
       ELSE /\ weatherCache' = CacheSet(weatherCache, r.city, now, resp.data)
            /\ fetchedAt' = [fetchedAt EXCEPT ![r.city] = now]
            /\ IF ProcessThrows(resp.data)
               THEN /\ error' = MsgRuntimeReduce
                    /\ ResetData
               ELSE ProcessWeatherData(resp.data)
    /\ Finally
    /\ event' = [NoEvent EXCEPT
                    !.type = "complete", !.city = r.city, !.resp = resp,
                    !.loadedBefore = LoadedCity,
                    !.processed = ~Throws(resp), !.data = resp.data]
    /\ lastOkCity' = IF Fails(resp) THEN lastOkCity ELSE r.city
    /\ UNCHANGED <<cityName, lastFetchedCity, now, tz, nFetch, runCity, runNet>>
    /\ UNCHANGED resolver
    /\ UNCHANGED lifecycle

-----------------------------------------------------------------------------
(* cleanupCache, run by the interval timer. Replacing weatherCache.value    *)
(* makes the watchEffect run again for the unchanged cityName; that run is   *)
(* the call SetCityName makes when cityName goes to null and back, which    *)
(* Next allows after every step, so it is not a step of its own.             *)

CleanupCache ==
    /\ timerActive
    /\ weatherCache' = Pruned(weatherCache)
    /\ event' = [NoEvent EXCEPT !.type = "sweep",
                                !.sizeBefore = Len(weatherCache)]
    /\ UNCHANGED <<cityName, display, isLoading, error, lastFetchedCity, now, tz,
                   inflight, nFetch, runCity, runNet, lastOkCity, fetchedAt>>
    /\ UNCHANGED resolver
    /\ UNCHANGED lifecycle

(* the clock advances, by half the cache duration at a time *)
TickStep == CACHE_DURATION \div 2

Tick ==
    /\ now < MaxTick * TickStep
    /\ now' = now + TickStep
    /\ event' = [NoEvent EXCEPT !.type = "tick"]
    /\ UNCHANGED <<cityName, display, isLoading, error, lastFetchedCity,
                   weatherCache, tz, inflight, nFetch, runCity, runNet,
                   lastOkCity, fetchedAt>>
    /\ UNCHANGED resolver
    /\ UNCHANGED lifecycle

Next ==
    \/ \E c \in Cities \cup {NullStr} : SetCityName(c)
    \/ \E r \in inflight : \E resp \in Responses(r.city) : Complete(r, resp)
    \/ CleanupCache
    \/ Tick

Spec == Init /\ [][Next]_vars

(* every network request that was issued completes at some time: the fetch *)
(* resolves or rejects                                                     *)
Completion == \E r \in inflight : \E resp \in Responses(r.city) : Complete(r, resp)

FairSpec == Spec /\ WF_vars(Completion)

-----------------------------------------------------------------------------
(* processWeatherData on its own: the payload is drawn from all forecast    *)
(* lists of up to MaxLen entries on 3-hour slots of two days (in any order, *)
(* with repetitions), with or without the list and the city descriptor,    *)
(* and the time zone from TimeZones.                                        *)

SlotHours == {24 + 3 * k : k \in 0..MaxSlot}

Lists == UNION {[1..n -> {Entry(h, 10) : h \in SlotHours}] : n \in 0..MaxLen}

(* a forecast with entries at the UTC hours 3, 6, 9, 12, 15, 18, 21 of one *)
(* day and 0 of the next                                                   *)
ExampleList == [i \in 1..8 |-> Entry(24 + 3 * i, 10 + i)]

ExamplePayload ==
    [hasList |-> TRUE, list |-> ExampleList, hasCity |-> TRUE,
     city |-> [name |-> "Berlin", country |-> "DE"]]

Payloads ==
    {[hasList |-> TRUE, list |-> l, hasCity |-> TRUE,
      city |-> [name |-> "Berlin", country |-> "DE"]] : l \in Lists}
    \cup {NoListPayload("Berlin"), NoCityPayload("Berlin"), ExamplePayload}

InitRegroup ==
    /\ cityName = NullStr
    /\ locationInfoData = NullObj
    /\ completeWeatherData = <<>>
    /\ dailyWeatherData = <<>>
    /\ isLoading = FALSE
    /\ error = NullStr
    /\ lastFetchedCity = NullStr
    /\ weatherCache = <<>>
    /\ now = 0
    /\ tz \in TimeZones
    /\ inflight = {}
    /\ nFetch = 0
    /\ event \in {[NoEvent EXCEPT !.type = "input", !.data = d] : d \in Payloads}
    /\ runCity = NullStr
    /\ runNet = 0
    /\ lastOkCity = NullStr
    /\ fetchedAt = [c \in Cities |-> -1]
    /\ ResolverInit
    /\ MountedInit

ProcessStep ==
    /\ event.type = "input"
    /\ ProcessWeatherData(event.data)
    /\ event' = [event EXCEPT !.type = "process", !.processed = TRUE]
    /\ UNCHANGED <<cityName, isLoading, lastFetchedCity, weatherCache, now, tz,
                   inflight, nFetch, runCity, runNet, lastOkCity, fetchedAt>>
    /\ UNCHANGED resolver
    /\ UNCHANGED lifecycle

NextRegroup == ProcessStep

SpecRegroup == InitRegroup /\ [][NextRegroup]_vars

-----------------------------------------------------------------------------
(* The cache under a tour of many cities: the cities of SweepTour are       *)
(* requested one after the other, each once the previous response arrived,  *)
(* every response is a success, and the sweep and the clock run at any      *)
(* point in between. After the last city the tour starts again.            *)

MaxSweepFetch == 13

SweepTour ==
    <<"Aachen", "Bonn", "Celle", "Dresden", "Essen", "Fulda", "Gera", "Hamm",
      "Ilmenau", "Jena", "Kiel", "Lahr">>

SweepCities == {SweepTour[i] : i \in 1..Len(SweepTour)}

OkResponse(c) ==
    [kind |-> "http", ok |-> TRUE, message |-> "", data |-> ValidPayload(c)]

InitSweep ==
    /\ cityName = NullStr
    /\ locationInfoData = NullObj
    /\ completeWeatherData = <<>>
    /\ dailyWeatherData = <<>>
    /\ isLoading = FALSE
    /\ error = NullStr
    /\ lastFetchedCity = NullStr
    /\ weatherCache = <<>>
    /\ now = 0
    /\ tz = HomeZone
    /\ inflight = {}
    /\ nFetch = 0
    /\ event = NoEvent
    /\ runCity = NullStr
    /\ runNet = 0
    /\ lastOkCity = NullStr
    /\ fetchedAt = [c \in SweepCities |-> -1]
    /\ ResolverInit
    /\ MountedInit

(* the next city of the tour is selected *)
RequestNext ==
    /\ inflight = {}
    /\ LET c == SweepTour[(nFetch % Len(SweepTour)) + 1]
       IN  /\ c # cityName
           /\ WatchCityName(c, MaxSweepFetch)
    /\ UNCHANGED resolver
    /\ UNCHANGED lifecycle

NextSweep ==
    \/ RequestNext
    \/ \E r \in inflight : Complete(r, OkResponse(r.city))
    \/ CleanupCache
    \/ Tick

SpecSweep == InitSweep /\ [][NextSweep]_vars

-----------------------------------------------------------------------------
(* The map view with the weather component: clicks select coordinates, the  *)
(* watcher resolves them to cityName, which is the component's prop.        *)

InitLocate ==
    /\ cityName = NullStr
    /\ locationInfoData = NullObj
    /\ completeWeatherData = <<>>
    /\ dailyWeatherData = <<>>
    /\ isLoading = FALSE
    /\ error = NullStr
    /\ lastFetchedCity = NullStr
    /\ weatherCache = <<>>
    /\ now = 0
    /\ tz = HomeZone
    /\ inflight = {}
    /\ nFetch = 0
    /\ event = NoEvent
    /\ runCity = NullStr
    /\ runNet = 0
    /\ lastOkCity = NullStr
    /\ fetchedAt = [c \in PlaceNames |-> -1]
    /\ ResolverInit
    /\ MountedInit

(* cityName.value = c; the weather component's watchEffect runs when the  *)
(* value changed                                                          *)
PlaceName(c) ==
    IF c # cityName
    THEN /\ WatchCityName(c, MaxFetch)
         /\ UNCHANGED lifecycle
    ELSE UNCHANGED <<cityName, aggregator>>

(* the callback of watch([locationLatitude, locationLongitude]), up to    *)
(* its await                                                              *)
WatchCoordinates(lat, lon) ==
    IF Truthy(lat) /\ Truthy(lon)
    THEN /\ nGeo < MaxGeo
         /\ geoInflight' = geoInflight \cup {[id |-> nGeo + 1, lat |-> lat, lon |-> lon]}
         /\ nGeo' = nGeo + 1
         /\ UNCHANGED <<cityName, aggregator>>
    ELSE /\ PlaceName(NullStr)
         /\ UNCHANGED <<geoInflight, nGeo>>

(* spatialReference.isWebMercator *)
IsWebMercatorAny(point) == TRUE
IsWebMercator(point) == point.isWebMercator

OnViewClick(point) ==
    IF ~IsWebMercator(point)
    THEN /\ lastGeo' = [NoGeoEvent EXCEPT !.type = "click", !.point = point,
                                          !.warned = TRUE]
         /\ UNCHANGED <<locationLatitude, locationLongitude, geoInflight, nGeo,
                        cityName, aggregator>>
    ELSE LET unavailable == Falsy(point.latitude) \/ Falsy(point.longitude)
             lat == IF unavailable THEN NotAvailable ELSE ToFixed3(point.latitude)
             lon == IF unavailable THEN NotAvailable ELSE ToFixed3(point.longitude)
         IN  /\ locationLatitude' = lat
             /\ locationLongitude' = lon
             /\ lastGeo' = [NoGeoEvent EXCEPT !.type = "click", !.point = point]
             /\ IF lat # locationLatitude \/ lon # locationLongitude
                THEN WatchCoordinates(lat, lon)
                ELSE UNCHANGED <<geoInflight, nGeo, cityName, aggregator>>

(* the watcher's callback after its await: getCityName returned *)
GeoCompleteRetry(g, resp) ==
    IF resp.kind # "json"
    THEN /\ nGeo < MaxGeo
         /\ geoInflight' = (geoInflight \ {g})
                             \cup {[id |-> nGeo + 1, lat |-> g.lat, lon |-> g.lon]}
         /\ nGeo' = nGeo + 1
         /\ lastGeo' = [NoGeoEvent EXCEPT !.type = "geocomplete", !.resp = resp,
                                     !.lat = g.lat, !.lon = g.lon,
                                          !.result = GetCityName(resp)]
         /\ UNCHANGED <<locationLatitude, locationLongitude, cityName, aggregator>>
    ELSE /\ geoInflight' = geoInflight \ {g}
         /\ lastGeo' = [NoGeoEvent EXCEPT !.type = "geocomplete", !.resp = resp,
                                     !.lat = g.lat, !.lon = g.lon,
                                          !.result = GetCityName(resp)]
         /\ PlaceName(GetCityName(resp))
         /\ UNCHANGED <<locationLatitude, locationLongitude, nGeo>>
GeoComplete(g, resp) ==
    /\ geoInflight' = geoInflight \ {g}
    /\ lastGeo' = [NoGeoEvent EXCEPT !.type = "geocomplete", !.resp = resp,
                                     !.lat = g.lat, !.lon = g.lon,
                                     !.result = GetCityName(resp)]
    /\ PlaceName(GetCityName(resp))
    /\ UNCHANGED <<locationLatitude, locationLongitude, nGeo>>

(* the forecast service answers or is unreachable *)
LocateResponses(c) ==
    {resp \in Responses(c) : resp.kind = "reject" \/ resp = OkResponse(c)}

NextLocate ==
    \/ \E point \in Points : OnViewClick(point)
    \/ \E g \in geoInflight : \E resp \in GeoResponses(g) : GeoComplete(g, resp)
    \/ \E r \in inflight : \E resp \in LocateResponses(r.city) : Complete(r, resp)

SpecLocate == InitLocate /\ [][NextLocate]_vars

-----------------------------------------------------------------------------
(* The life of the weather component: script setup has run, then the view   *)
(* is mounted (onMounted sets the interval), then it is unmounted. Vue      *)
(* ignores the value a mounted hook returns, and the component registers no *)
(* unmount hook, so nothing clears the interval; unmounting stops the       *)
(* watchEffect, while pending fetches and the interval go on.               *)

InitMount ==
    /\ cityName = NullStr
    /\ locationInfoData = NullObj
    /\ completeWeatherData = <<>>
    /\ dailyWeatherData = <<>>
    /\ isLoading = FALSE
    /\ error = NullStr
    /\ lastFetchedCity = NullStr
    /\ weatherCache = <<>>
    /\ now = 0
    /\ tz = HomeZone
    /\ inflight = {}
    /\ nFetch = 0
    /\ event = NoEvent
    /\ runCity = NullStr
    /\ runNet = 0
    /\ lastOkCity = NullStr
    /\ fetchedAt = [c \in Cities |-> -1]
    /\ ResolverInit
    /\ phase = "setup"
    /\ timerActive = FALSE

(* onMounted(() => { const interval = setInterval(cleanupCache, ...) ... }) *)
Mount ==
    /\ phase = "setup"
    /\ phase' = "mounted"
    /\ timerActive' = TRUE
    /\ event' = [NoEvent EXCEPT !.type = "mount"]
    /\ UNCHANGED <<cityName, display, isLoading, error, lastFetchedCity,
                   weatherCache, now, tz, inflight, nFetch, runCity, runNet,
                   lastOkCity, fetchedAt>>
    /\ UNCHANGED resolver

(* the parent removes the component *)
Unmount ==
    /\ phase = "mounted"
    /\ phase' = "unmounted"
    /\ timerActive' = timerActive
    /\ event' = [NoEvent EXCEPT !.type = "unmount"]
    /\ UNCHANGED <<cityName, display, isLoading, error, lastFetchedCity,
                   weatherCache, now, tz, inflight, nFetch, runCity, runNet,
                   lastOkCity, fetchedAt>>
    /\ UNCHANGED resolver

NextMount ==
    \/ Mount
    \/ Unmount
    \/ phase = "mounted" /\ \E c \in Cities \cup {NullStr} : SetCityName(c)
    \/ \E r \in inflight : \E resp \in LocateResponses(r.city) : Complete(r, resp)
    \/ CleanupCache
    \/ Tick

SpecMount == InitMount /\ [][NextMount]_vars

-----------------------------------------------------------------------------
(* Properties of the forecast aggregator *)

(* C1: a request for a city other than the one whose data is loaded (and   *)
(* with no request for it in flight) is never suppressed: it is served     *)
(* from the cache or issues a network fetch.                               *)
C1_RequestNotSuppressed ==
    (/\ event.type = "call"
     /\ event.loadedBefore # NullStr
     /\ event.loadedBefore # event.city
     /\ ~event.pendingBefore)
    => event.outcome \in {"cachehit", "network"}

(* C2: a request for a city whose response was stored before issues a      *)
(* network call exactly when that was CACHE_DURATION (10 minutes) or more  *)
(* ago.                                                                    *)
C2_CacheTTL ==
    (event.type = "call" /\ event.hadFetch)
    => (event.outcome = "network" <=> event.stale)

(* C3: consecutive calls of fetchWeatherForecast with the same city, with  *)
(* no call for another city in between, issue at most one network request  *)
(* between them.                                                           *)
C3_Idempotent == runNet <= 1

(* a repeated call for the city whose fetch failed, suppressed *)
C3_Witness ==
    /\ event.type = "call"
    /\ event.outcome = "suppressed"
    /\ event.city = runCity
    /\ runNet = 1
    /\ inflight = {}
    /\ error # NullStr

(* C4: a request is suppressed only when its city is the city of the last  *)
(* fetch that completed successfully; after a failed fetch of X (nothing   *)
(* in flight for X) a request for X is not suppressed.                     *)
C4_SuppressedOnlyAfterSuccess ==
    (event.type = "call" /\ event.outcome = "suppressed" /\ ~event.pendingBefore)
    => event.city = lastOkCity

(* C5: a cache hit on a valid payload, from a state that is not Loading,   *)
(* leaves the aggregator Ready: no error, not loading, and the display is  *)
(* the regrouping of the cached payload.                                   *)
C5_CacheHitReady ==
    (/\ event.type = "call"
     /\ event.outcome = "cachehit"
     /\ ~IsInvalid(event.data)
     /\ ~ProcessThrows(event.data)
     /\ ~event.loadingBefore)
    => /\ error = NullStr
       /\ ~isLoading
       /\ completeWeatherData = event.data.list
       /\ dailyWeatherData = Regroup(event.data.list, tz)
       /\ locationInfoData = LocationInfoOf(event.data)

(* the step entered Error: a failed response, or an invalid cached payload *)
EnteredError ==
    \/ event.type = "complete" /\ Fails(event.resp)
    \/ event.type = "call" /\ event.outcome = "cachehit" /\ IsInvalid(event.data)

(* C6: on entering Error, error is set and locationInfo, the raw list and  *)
(* the buckets are cleared, so current is null and today, upcoming empty.  *)
C6_ErrorClearsDisplay ==
    EnteredError
    => /\ error # NullStr
       /\ locationInfoData = NullObj
       /\ completeWeatherData = <<>>
       /\ dailyWeatherData = <<>>
       /\ currentWeather = NullObj
       /\ todayBlocks = <<>>
       /\ nextDays = <<>>

(* a failure that arrives while another load's data is shown *)
C6_Witness ==
    /\ event.type = "complete"
    /\ Fails(event.resp)
    /\ event.loadedBefore # NullStr
    /\ error # NullStr
    /\ completeWeatherData = <<>>

(* C7: after a failed fetch the error is the server's message when the     *)
(* response carries one, and a generic localized message otherwise.        *)
C7_ErrorMessage ==
    (event.type = "complete" /\ Fails(event.resp))
    => IF HasServerMessage(event.resp)
       THEN error = event.resp.message
       ELSE error \in GenericMessages

-----------------------------------------------------------------------------
(* Properties of the regrouping *)

ValidInput ==
    event.processed /\ ~IsInvalid(event.data) /\ ~ProcessThrows(event.data)

AllEntries(buckets) == {buckets[i].weatherEntries[j] :
                          <<i, j>> \in {p \in (1..Len(buckets)) \X (1..MaxLen + 1) :
                                          p[2] <= Len(buckets[p[1]].weatherEntries)}}

(* C8: every entry of every bucket (today and upcoming) has a UTC hour of  *)
(* day in {6, 12, 18, 21}.                                                 *)
C8_BucketsOnlyTargetHours ==
    /\ \A j \in 1..Len(todayBlocks) :
          GetUTCHours(DateOf(todayBlocks[j])) \in {6, 12, 18, 21}
    /\ \A i \in 1..Len(nextDays) : \A j \in 1..Len(nextDays[i].weatherEntries) :
          GetUTCHours(DateOf(nextDays[i].weatherEntries[j])) \in {6, 12, 18, 21}

(* a list holding a target-hour entry and another one was regrouped *)
C8_Witness ==
    /\ event.type = "process"
    /\ ValidInput
    /\ \E i \in 1..Len(event.data.list) :
          GetUTCHours(DateOf(event.data.list[i])) \notin {6, 12, 18, 21}
    /\ todayBlocks # <<>>
    /\ nextDays # <<>>
    /\ \E i \in 1..Len(nextDays) : nextDays[i].weatherEntries # <<>>

(* C9: after a valid payload with a non-empty list was processed, current  *)
(* weather is the first entry of the raw list.                             *)
C9_CurrentIsFirstRaw ==
    (ValidInput /\ Len(event.data.list) > 0)
    => currentWeather = event.data.list[1]

(* the first raw entry is at no target hour and is in no bucket *)
C9_Witness ==
    /\ event.type = "process"
    /\ ValidInput
    /\ Len(event.data.list) > 1
    /\ GetUTCHours(DateOf(event.data.list[1])) \notin {6, 12, 18, 21}
    /\ currentWeather = event.data.list[1]
    /\ todayBlocks # <<>>
    /\ event.data.list[1] \notin AllEntries(dailyWeatherData)

Chronological(list) ==
    \A i \in 1..Len(list) : \A j \in i..Len(list) : list[i].dt <= list[j].dt

(* the places of the list where a date appears for the first time *)
FirstSeen(list, zone) ==
    {i \in 1..Len(list) :
        \A j \in 1..(i - 1) :
            ToDateString(DateOf(list[j]), zone) # ToDateString(DateOf(list[i]), zone)}

(* the k-th of them *)
FirstSeenAt(list, zone, k) ==
    CHOOSE i \in FirstSeen(list, zone) :
        Cardinality({j \in FirstSeen(list, zone) : j <= i}) = k

RECURSIVE Concat(_)
Concat(buckets) ==
    IF buckets = <<>> THEN <<>>
    ELSE Head(buckets).weatherEntries \o Concat(Tail(buckets))

(* C10: for a chronological list there is one bucket per distinct date, in *)
(* the order of the dates' first appearance; the buckets' entries, joined, *)
(* are the list filtered to the target hours, in its order; today is the   *)
(* first bucket and upcoming the others.                                   *)
C10_BucketsPartitionList ==
    (ValidInput /\ Chronological(event.data.list))
    => LET list == event.data.list
       IN  /\ Len(dailyWeatherData) = Cardinality(FirstSeen(list, tz))
           /\ \A k \in 1..Len(dailyWeatherData) :
                 dailyWeatherData[k].date =
                    ToDateString(DateOf(list[FirstSeenAt(list, tz, k)]), tz)
           /\ Concat(dailyWeatherData) =
                 SelectSeq(list, LAMBDA e : GetUTCHours(DateOf(e)) \in {6, 12, 18, 21})
           /\ Len(list) > 0 =>
                 /\ todayBlocks = dailyWeatherData[1].weatherEntries
                 /\ Len(nextDays) = Len(dailyWeatherData) - 1
                 /\ \A k \in 1..Len(nextDays) : nextDays[k] = dailyWeatherData[k + 1]

(* a chronological list over two dates, the first date without any        *)
(* target-hour entry                                                      *)
C10_Witness ==
    /\ event.type = "process"
    /\ ValidInput
    /\ Chronological(event.data.list)
    /\ Len(event.data.list) = 3
    /\ Len(dailyWeatherData) = 2
    /\ todayBlocks = <<>>
    /\ Len(nextDays) = 1
    /\ Len(nextDays[1].weatherEntries) = 2

(* C11: entries are grouped by the calendar date of their UTC timestamp,   *)
(* in every time zone: today holds the target-hour entries of the first    *)
(* entry's UTC date; for the list at UTC hours 3, 6, ..., 21, 0 today is   *)
(* the entries at 6, 12, 18 and 21, one more bucket follows, and current   *)
(* weather is the entry at hour 3.                                         *)
C11_GroupedByUTCDate ==
    (ValidInput /\ Chronological(event.data.list) /\ Len(event.data.list) > 0)
    => LET list == event.data.list
       IN  /\ todayBlocks =
                SelectSeq(list, LAMBDA e :
                    /\ UTCDay(DateOf(e)) = UTCDay(DateOf(list[1]))
                    /\ GetUTCHours(DateOf(e)) \in {6, 12, 18, 21})
           /\ list = ExampleList =>
                 /\ todayBlocks = <<ExampleList[2], ExampleList[4],
                                    ExampleList[6], ExampleList[7]>>
                 /\ Len(nextDays) = 1
                 /\ currentWeather = ExampleList[1]

(* C14: completions are not reconciled with the order of the requests:    *)
(* every response that arrives and does not fail is displayed (current,    *)
(* buckets, locationInfo), also when a later request for another city has  *)
(* superseded its request, so the last completion wins; and a request in   *)
(* flight is only ever removed by the arrival of its own response, never   *)
(* by a newer call.                                                        *)
C14_LastCompletionWins ==
    /\ [](event.type = "complete" /\ ~Fails(event.resp)
          => /\ LoadedCity = event.city
             /\ locationInfoData = LocationInfoOf(event.resp.data)
             /\ completeWeatherData = event.resp.data.list
             /\ dailyWeatherData = Regroup(event.resp.data.list, tz))
    /\ [][\A r \in inflight :
             r \in inflight' \/ (event'.type = "complete" /\ event'.city = r.city)]_vars

(* A was requested, then B; B's response arrived and was stored, then A's  *)
(* response arrived: A is displayed although B is the city asked for       *)
C14_Witness ==
    /\ event.type = "complete"
    /\ ~Fails(event.resp)
    /\ event.city = "Berlin"
    /\ cityName = "Paris"
    /\ lastFetchedCity = "Paris"
    /\ lastOkCity = "Berlin"
    /\ fetchedAt["Paris"] >= 0
    /\ HasKey(weatherCache, "Paris")
    /\ inflight = {}
    /\ LoadedCity = "Berlin"
    /\ currentWeather = ForecastOf("Berlin")[1]
    /\ error = NullStr
    /\ ~isLoading

(* C12: a sweep that finds more than 10 entries leaves exactly 5, which    *)
(* are entries it found and have the greatest stored-at timestamps (none   *)
(* of the dropped entries is newer than a kept one); a sweep that finds 10 *)
(* or fewer leaves the cache as it is.                                     *)
C12_SweepPrunes ==
    [][event'.type = "sweep"
       => IF Len(weatherCache) > 10
          THEN /\ Len(weatherCache') = 5
               /\ \A i \in 1..5 : \E j \in 1..Len(weatherCache) :
                        weatherCache'[i] = weatherCache[j]
               /\ \A i \in 1..5 : \A j \in 1..Len(weatherCache) :
                        \/ HasKey(weatherCache', weatherCache[j].key)
                        \/ weatherCache'[i].timestamp >= weatherCache[j].timestamp
          ELSE weatherCache' = weatherCache]_vars

(* a sweep found 11 entries stored at different times and left 5 *)
C12_Witness ==
    /\ event.type = "sweep"
    /\ event.sizeBefore = 11
    /\ Len(weatherCache) = 5
    /\ \E i \in 1..5 : weatherCache[i].timestamp > 0
    /\ fetchedAt[SweepTour[1]] = 0
    /\ ~HasKey(weatherCache, SweepTour[1])

UniqueKeys(cache) ==
    \A i \in 1..Len(cache) : \A j \in 1..Len(cache) :
        cache[i].key = cache[j].key => i = j

(* C13 as stated: in every reachable state the cache holds at most one     *)
(* entry per cityName and at most 10 entries.                              *)
C13_CacheInvariant ==
    /\ UniqueKeys(weatherCache)
    /\ Len(weatherCache) <= 10

(* C13, amended: in every reachable state the cache holds at most one      *)
(* entry per cityName, the entry of a city whose response was just stored  *)
(* carries that response and the time of its arrival, and right after a    *)
(* sweep the cache holds at most 10 entries.                               *)
C13_CacheUniqueBoundedAfterSweep ==
    /\ UniqueKeys(weatherCache)
    /\ event.type = "complete"
       => CacheGet(weatherCache, event.city)
            = [key |-> event.city, timestamp |-> now, data |-> event.resp.data]
    /\ event.type = "sweep" => Len(weatherCache) <= 10

(* the first city of the tour was fetched again after its entry expired,   *)
(* with all 12 cities in the cache: its entry was replaced                 *)
C13_Witness ==
    /\ event.type = "complete"
    /\ event.city = SweepTour[1]
    /\ nFetch = 13
    /\ Len(weatherCache) = 12
    /\ weatherCache[1].key = SweepTour[1]
    /\ weatherCache[1].timestamp = now
    /\ now > 0

(* the step met a failure: a failed response, or a cached payload that is  *)
(* invalid or malformed                                                    *)
MetFailure ==
    \/ event.type = "complete" /\ Fails(event.resp)
    \/ /\ event.type = "call"
       /\ event.outcome = "cachehit"
       /\ (IsInvalid(event.data) \/ ProcessThrows(event.data))

(* C19: no exception leaves fetchWeatherForecast, on the network path and  *)
(* on the cache-hit path: a failure ends in the Error state (error set,    *)
(* collections cleared).                                                   *)
C19_NoFailureEscapes ==
    /\ ~event.escaped
    /\ MetFailure
       => /\ error # NullStr
          /\ locationInfoData = NullObj
          /\ completeWeatherData = <<>>
          /\ dailyWeatherData = <<>>

(* C20: isLoading is true whenever a forecast request is in flight. *)
C20_LoadingWhileInFlight == inflight # {} => isLoading

(* Ready: the data of a city is loaded; Error: a message is set *)
IsReady == locationInfoData # NullObj
IsError == error # NullStr

(* C22: when every issued request completes, Loading always ends: a state  *)
(* with isLoading true is followed by one with isLoading false; and when   *)
(* requests were issued and none is in flight any more, isLoading is false *)
(* and the component is in Ready or in Error.                              *)
C22_LoadingEnds ==
    /\ isLoading ~> ~isLoading
    /\ []((nFetch > 0 /\ inflight = {}) => (~isLoading /\ (IsReady \/ IsError)))

(* two overlapping requests have both completed, the last one failing *)
C22_Witness ==
    /\ event.type = "complete"
    /\ Fails(event.resp)
    /\ nFetch = 2
    /\ inflight = {}
    /\ ~isLoading
    /\ IsError
    /\ fetchedAt["Berlin"] < 0
    /\ fetchedAt["Paris"] < 0

-----------------------------------------------------------------------------
(* Properties of the map view *)

(* the step is a click on the map that had an effect or was warned about *)
IsClickStep == lastGeo'.type = "click" /\ lastGeo' # lastGeo

(* C15: a click on a point whose spatial reference is not Web Mercator is  *)
(* warned about and changes nothing: the coordinates and cityName keep     *)
(* their values, and no reverse-geocode request and no forecast request is *)
(* issued.                                                                 *)
C15_NonWebMercatorClickIgnored ==
    [][(IsClickStep /\ ~lastGeo'.point.isWebMercator)
       => /\ lastGeo'.warned
          /\ UNCHANGED <<locationLatitude, locationLongitude, cityName,
                         geoInflight, nGeo, inflight, nFetch>>]_vars

(* Berlin is selected and resolved; a click on Paris in another spatial    *)
(* reference was warned about                                              *)
C15_Witness ==
    /\ lastGeo.type = "click"
    /\ lastGeo.warned
    /\ lastGeo.point = Point(Num(488566), Num(23522), FALSE)
    /\ locationLatitude = "52.520"
    /\ locationLongitude = "13.405"
    /\ cityName = "Berlin"

(* C16: a Web Mercator click without latitude/longitude sets both          *)
(* coordinates to "n.V." and resets cityName to null, and issues no        *)
(* reverse-geocode request.                                                *)
C16_UnavailablePointResetsPlace ==
    [][(/\ IsClickStep
        /\ lastGeo'.point.isWebMercator
        /\ (Falsy(lastGeo'.point.latitude) \/ Falsy(lastGeo'.point.longitude)))
       => /\ locationLatitude' = "n.V."
          /\ locationLongitude' = "n.V."
          /\ cityName' = NullStr
          /\ nGeo' = nGeo
          /\ geoInflight' = geoInflight]_vars

(* C17: from a parsed response getCityName returns the normalized city     *)
(* name when there is one, otherwise the city field when there is one,     *)
(* otherwise "n.V."; without a result or with empty components it returns  *)
(* "n.V.". The name becomes cityName.                                      *)
C17_CityNamePrecedence ==
    (lastGeo.type = "geocomplete" /\ lastGeo.resp.kind = "json")
    => LET resp == lastGeo.resp
           present == resp.hasResult /\ resp.hasComponents
       IN  /\ lastGeo.result =
                IF present /\ resp.normalized # Undefined THEN resp.normalized
                ELSE IF present /\ resp.city # Undefined THEN resp.city
                ELSE "n.V."
           /\ ~present => lastGeo.result = "n.V."
           /\ cityName = lastGeo.result

(* the service named both fields for the Berlin point *)
C17_Witness ==
    /\ lastGeo.type = "geocomplete"
    /\ lastGeo.resp = GeoBody(TRUE, TRUE, "Berlin", "Paris")
    /\ cityName = "Berlin"
    /\ locationLatitude = "52.520"

(* C18: when the reverse-geocode call fails (network or parse), the name   *)
(* resolved is a failure sentinel that differs from "n.V.", and it becomes *)
(* cityName; a request is issued exactly when the coordinates change, one  *)
(* per change, and no other step (in particular no failed call) issues     *)
(* one.                                                                    *)
C18_GeocodeFailureSentinel ==
    /\ []((lastGeo.type = "geocomplete" /\ lastGeo.resp.kind \in {"reject", "badjson"})
          => /\ lastGeo.result = "error fetching city name"
             /\ lastGeo.result # "n.V."
             /\ cityName = lastGeo.result)
    /\ [][IF <<locationLatitude', locationLongitude'>>
                # <<locationLatitude, locationLongitude>>
          THEN /\ nGeo' = nGeo + 1
               /\ geoInflight' = geoInflight \cup
                    {[id |-> nGeo', lat |-> locationLatitude',
                      lon |-> locationLongitude']}
          ELSE /\ nGeo' = nGeo
               /\ geoInflight' \subseteq geoInflight]_vars

(* the only request, for the Paris point, failed to parse *)
C18_Witness ==
    /\ lastGeo.type = "geocomplete"
    /\ lastGeo.resp.kind = "badjson"
    /\ cityName = "error fetching city name"
    /\ locationLatitude = "48.857"
    /\ nGeo = 1
    /\ geoInflight = {}

(* C23: once every reverse-geocode request has settled, cityName is the    *)
(* name resolved for the coordinates the display shows: the request that   *)
(* completed last, whose result cityName holds, was the one for the        *)
(* coordinates selected last.                                              *)
C23_PlaceNameMatchesCoordinates ==
    (geoInflight = {} /\ lastGeo.type = "geocomplete")
    => /\ cityName = lastGeo.result
       /\ lastGeo.lat = locationLatitude
       /\ lastGeo.lon = locationLongitude

-----------------------------------------------------------------------------
(* Properties of the component's life cycle *)

(* C21: the sweep timer is set when the view is mounted and cleared when   *)
(* it is unmounted: the interval is scheduled exactly while the view is    *)
(* mounted, and cleanupCache does not run after the unmount.               *)
C21_TimerTornDown ==
    /\ phase = "setup" => ~timerActive
    /\ phase = "mounted" => timerActive
    /\ phase = "unmounted" => (~timerActive /\ event.type # "sweep")

=============================================================================
